---- MODULE Spec2Model ----
(***************************************************************************)
(* Model of swagger-ui/src/lib.rs: the SwaggerUi builder, its Config, the  *)
(* URL resolution done by Config::urls, the serde serialization of Config  *)
(* and the page rendered by SwaggerUi::serve.                              *)
(*                                                                         *)
(* Strings are TLA+ strings (TLC evaluates Len, \o and SubSeq on them), so *)
(* the JSON text and the HTML page are built character for character.      *)
(* Option<T> is a sequence: <<>> is None and <<v>> is Some(v).             *)
(***************************************************************************)
EXTENDS Integers, Sequences, FiniteSets, TLC

VARIABLES ui, prev, last, ret, calls

vars == <<ui, prev, last, ret, calls>>

(***************************************************************************)
(* Bounds of the model.                                                    *)
(***************************************************************************)
\* the longest sequence handed to Config::urls
MaxUrls == 2
\* the number of method calls made on one SwaggerUi
MaxCalls == 2

(***************************************************************************)
(* Option<T>                                                               *)
(***************************************************************************)
None == <<>>
Some(v) == <<v>>
is_none(o) == o = <<>>
is_some(o) == o # <<>>
unwrap(o) == o[1]

\* Result<T, E>, and a panic of the thread that made the call
Ok(v) == <<"Ok", v>>
Err(e) == <<"Err", e>>
Panic(msg) == <<"Panic", msg>>
is_ok(r) == r[1] = "Ok"

(***************************************************************************)
(* SwaggerUiStaticFile                                                     *)
(***************************************************************************)
SwaggerUiStaticFile ==
  {"Css", "IndexCss", "Js", "StandalonePresetJs", "Favicon16", "Favicon32"}

\* all with the fault that one variant is left out of the list
all_without_standalone_preset ==
  <<"Css", "IndexCss", "Js", "Favicon16", "Favicon32">>

all == <<"Css", "IndexCss", "Js", "StandalonePresetJs", "Favicon16", "Favicon32">>

file_name(self) ==
  CASE self = "Css" -> "swagger-ui.css"
    [] self = "IndexCss" -> "index.css"
    [] self = "Js" -> "swagger-ui-bundle.js"
    [] self = "StandalonePresetJs" -> "swagger-ui-standalone-preset.js"
    [] self = "Favicon16" -> "favicon-16x16.png"
    [] self = "Favicon32" -> "favicon-32x32.png"

\* default_path with the fault that the file name is not prefixed
default_path_bare(self) == file_name(self)

default_path(self) == "./" \o file_name(self)

\* insert with the fault that a key already present keeps its value, as
\* entry(k).or_insert(v) does
insert_if_absent(map, k, v) ==
  [f \in (DOMAIN map) \cup {k} |-> IF f \in DOMAIN map THEN map[f] ELSE v]

\* a HashMap is a function on the set of keys it holds.  HashMap::insert:
\* the key is added when absent, its value replaced when present
insert(map, k, v) ==
  [f \in (DOMAIN map) \cup {k} |-> IF f = k THEN v ELSE map[f]]

RECURSIVE default_map_from(_, _)
default_map_from(map, i) ==
  IF i > Len(all) THEN map
  ELSE default_map_from(insert(map, all[i], default_path(all[i])), i + 1)

default_map == default_map_from(<<>>, 1)

(***************************************************************************)
(* Url                                                                     *)
(***************************************************************************)
Url_default == [name |-> "", url |-> "", primary |-> FALSE]

Url_new(name, url) == [Url_default EXCEPT !.name = name, !.url = url]

Url_with_primary(name, url, primary) ==
  [name |-> name, url |-> url, primary |-> primary]

Url_from(url) == [Url_default EXCEPT !.url = url]

(***************************************************************************)
(* Config                                                                  *)
(***************************************************************************)
SWAGGER_STANDALONE_LAYOUT == "StandaloneLayout"
SWAGGER_BASE_LAYOUT == "BaseLayout"

\* Default with the fault that dom_id starts unset, as a derived Default
\* would leave it
Config_default_dom_id_unset ==
  [ config_url |-> None,
    dom_id |-> None,
    url |-> None,
    urls_primary_name |-> None,
    urls |-> <<>>,
    query_config_enabled |-> None,
    deep_linking |-> Some(TRUE),
    display_operation_id |-> None,
    default_models_expand_depth |-> None,
    default_model_expand_depth |-> None,
    default_model_rendering |-> None,
    display_request_duration |-> None,
    doc_expansion |-> None,
    filter |-> None,
    max_displayed_tags |-> None,
    show_extensions |-> None,
    show_common_extensions |-> None,
    try_it_out_enabled |-> None,
    request_snippets_enabled |-> None,
    oauth2_redirect_url |-> None,
    show_mutated_request |-> None,
    supported_submit_methods |-> None,
    validator_url |-> None,
    with_credentials |-> None,
    persist_authorization |-> None,
    oauth |-> None,
    syntax_highlight |-> None,
    layout |-> SWAGGER_STANDALONE_LAYOUT,
    basic_auth |-> None ]

Config_default ==
  [ config_url |-> None,
    dom_id |-> Some("#swagger-ui"),
    url |-> None,
    urls_primary_name |-> None,
    urls |-> <<>>,
    query_config_enabled |-> None,
    deep_linking |-> Some(TRUE),
    display_operation_id |-> None,
    default_models_expand_depth |-> None,
    default_model_expand_depth |-> None,
    default_model_rendering |-> None,
    display_request_duration |-> None,
    doc_expansion |-> None,
    filter |-> None,
    max_displayed_tags |-> None,
    show_extensions |-> None,
    show_common_extensions |-> None,
    try_it_out_enabled |-> None,
    request_snippets_enabled |-> None,
    oauth2_redirect_url |-> None,
    show_mutated_request |-> None,
    supported_submit_methods |-> None,
    validator_url |-> None,
    with_credentials |-> None,
    persist_authorization |-> None,
    oauth |-> None,
    syntax_highlight |-> None,
    layout |-> SWAGGER_STANDALONE_LAYOUT,
    basic_auth |-> None ]

\* new with the fault that deep_linking starts unset
Config_new_deep_linking_unset == [Config_default EXCEPT !.deep_linking = None]

Config_new == Config_default

\* find with the fault that the last primary element wins
RECURSIVE find_primary_last(_, _)
find_primary_last(us, i) ==
  IF i > Len(us) THEN None
  ELSE LET later == find_primary_last(us, i + 1)
       IN  IF is_some(later) THEN later
           ELSE IF us[i].primary THEN Some(us[i]) ELSE None

\* the first element of the sequence that satisfies url.primary, if any
RECURSIVE find_primary(_, _)
find_primary(us, i) ==
  IF i > Len(us) THEN None
  ELSE IF us[i].primary THEN Some(us[i]) ELSE find_primary(us, i + 1)

\* multiple_urls with the fault that empty names are kept as they are
multiple_urls_keeps_empty_names(self, us) ==
  LET found == find_primary(us, 1)
      primary_name == IF is_some(found) THEN Some(unwrap(found).name) ELSE None
  IN  [self EXCEPT !.urls_primary_name = primary_name, !.urls = us]

\* multiple_urls with the fault that the primary name is read after the
\* empty names were rewritten
multiple_urls_renames_first(self, us) ==
  LET renamed == [i \in 1..Len(us) |->
                    IF us[i].name = ""
                      THEN [us[i] EXCEPT !.name = us[i].url]
                      ELSE us[i]]
      found == find_primary(renamed, 1)
      primary_name == IF is_some(found) THEN Some(unwrap(found).name) ELSE None
  IN  [self EXCEPT !.urls_primary_name = primary_name, !.urls = renamed]

multiple_urls(self, us) ==
  LET found == find_primary(us, 1)
      primary_name == IF is_some(found) THEN Some(unwrap(found).name) ELSE None
  IN  [self EXCEPT
        !.urls_primary_name = primary_name,
        !.urls = [i \in 1..Len(us) |->
                    IF us[i].name = ""
                      THEN [us[i] EXCEPT !.name = us[i].url]
                      ELSE us[i]]]

\* single_url with the fault that url is assigned only in the unnamed case
single_url_keeps_url(self, us) ==
  LET url == us[1]
      primary_name == IF url.primary THEN Some(url.name) ELSE None
  IN  [self EXCEPT
        !.urls_primary_name = primary_name,
        !.url = IF url.name = "" THEN Some(url.url) ELSE @,
        !.urls = IF url.name = "" THEN <<>> ELSE <<url>>]

\* single_url with the fault that only a named url gives a primary name
single_url_named_primary(self, us) ==
  LET url == us[1]
      primary_name ==
        IF url.primary /\ url.name # "" THEN Some(url.name) ELSE None
  IN  [self EXCEPT
        !.urls_primary_name = primary_name,
        !.url = IF url.name = "" THEN Some(url.url) ELSE None,
        !.urls = IF url.name = "" THEN <<>> ELSE <<url>>]

single_url(self, us) ==
  LET url == us[1]
      primary_name == IF url.primary THEN Some(url.name) ELSE None
  IN  [self EXCEPT
        !.urls_primary_name = primary_name,
        !.url = IF url.name = "" THEN Some(url.url) ELSE None,
        !.urls = IF url.name = "" THEN <<>> ELSE <<url>>]

\* the items of the iterator, each through Into<Url>
into_urls(arg) ==
  [i \in 1..Len(arg.items) |->
     IF arg.kind = "str" THEN Url_from(arg.items[i]) ELSE arg.items[i]]

\* urls with the fault that the result is built from a default Config, as a
\* constructor would build it
urls_from_default(self, arg) ==
  LET us == into_urls(arg)
      urls_len == Len(us)
  IN  IF urls_len = 1 THEN single_url(Config_default, us)
      ELSE multiple_urls(Config_default, us)

urls(self, arg) ==
  LET us == into_urls(arg)
      urls_len == Len(us)
  IN  IF urls_len = 1 THEN single_url(self, us) ELSE multiple_urls(self, us)

\* urls.get_mut(0).map(mem::take).unwrap() in single_url: the first element,
\* or the panic of unwrap on None
take_first(us) ==
  IF Len(us) = 0 THEN Panic("called Option::unwrap() on a None value")
  ELSE Ok(us[1])

\* urls_outcome with the fault that an empty Vec enters the single rule too
urls_outcome_single_on_empty(self, arg) ==
  LET us == into_urls(arg)
      urls_len == Len(us)
  IN  IF urls_len <= 1
        THEN IF is_ok(take_first(us)) THEN Ok(single_url(self, us))
             ELSE take_first(us)
        ELSE Ok(multiple_urls(self, us))

\* how a call of urls() ends: with the Config it leaves, or with a panic
urls_outcome(self, arg) ==
  LET us == into_urls(arg)
      urls_len == Len(us)
  IN  IF urls_len = 1
        THEN IF is_ok(take_first(us)) THEN Ok(single_url(self, us))
             ELSE take_first(us)
        ELSE Ok(multiple_urls(self, us))

(***************************************************************************)
(* BasicAuth and SyntaxHighlight                                           *)
(***************************************************************************)
BasicAuth(username, password) == [username |-> username, password |-> password]

SyntaxHighlight_default == [activated |-> TRUE, theme |-> None]

SyntaxHighlight_from(value) == [SyntaxHighlight_default EXCEPT !.activated = value]

SyntaxHighlight_activated(self, activated) == [self EXCEPT !.activated = activated]

SyntaxHighlight_theme(self, theme) == [self EXCEPT !.theme = Some(theme)]

(***************************************************************************)
(* Serialize: the serde data model of Config, Url, SyntaxHighlight and     *)
(* BasicAuth.  A serialized struct is the sequence of its emitted fields,  *)
(* in declaration order, each a key and a JSON value.                      *)
(***************************************************************************)
JString(s) == [t |-> "string", v |-> s]
JBool(b) == [t |-> "bool", v |-> b]
JNumber(n) == [t |-> "number", v |-> n]
JArray(items) == [t |-> "array", v |-> items]
JObject(entries) == [t |-> "object", v |-> entries]

Lower == "abcdefghijklmnopqrstuvwxyz"
Upper == "ABCDEFGHIJKLMNOPQRSTUVWXYZ"

char_at(s, i) == SubSeq(s, i, i)

RECURSIVE index_of(_, _, _)
index_of(ch, s, i) ==
  IF i > Len(s) THEN 0
  ELSE IF char_at(s, i) = ch THEN i ELSE index_of(ch, s, i + 1)

to_ascii_uppercase(ch) ==
  LET i == index_of(ch, Lower, 1) IN IF i = 0 THEN ch ELSE char_at(Upper, i)

to_ascii_lowercase(ch) ==
  LET i == index_of(ch, Upper, 1) IN IF i = 0 THEN ch ELSE char_at(Lower, i)

\* serde's rename rule for fields: every '_' is dropped and the character
\* after it is upper-cased (PascalCase starts capitalised)
RECURSIVE pascal_case(_, _, _)
pascal_case(field, i, capitalize) ==
  IF i > Len(field) THEN ""
  ELSE LET ch == char_at(field, i)
       IN  IF ch = "_" THEN pascal_case(field, i + 1, TRUE)
           ELSE IF capitalize
             THEN to_ascii_uppercase(ch) \o pascal_case(field, i + 1, FALSE)
             ELSE ch \o pascal_case(field, i + 1, FALSE)

\* #[serde(rename_all = "camelCase")]: PascalCase with its first character
\* lower-cased
camelCase(field) ==
  LET pascal == pascal_case(field, 1, TRUE)
  IN  IF pascal = "" THEN ""
      ELSE to_ascii_lowercase(char_at(pascal, 1)) \o SubSeq(pascal, 2, Len(pascal))

\* the fields of Config in declaration order, oauth among them
ConfigFields ==
  << "config_url", "dom_id", "url", "urls_primary_name", "urls",
     "query_config_enabled", "deep_linking", "display_operation_id",
     "default_models_expand_depth", "default_model_expand_depth",
     "default_model_rendering", "display_request_duration", "doc_expansion",
     "filter", "max_displayed_tags", "show_extensions",
     "show_common_extensions", "try_it_out_enabled",
     "request_snippets_enabled", "oauth2_redirect_url", "show_mutated_request",
     "supported_submit_methods", "validator_url", "with_credentials",
     "persist_authorization", "oauth", "syntax_highlight", "layout",
     "basic_auth" >>

\* the renames with the fault that no field carries #[serde(rename = ...)]
SerdeRename_none == <<>>

\* #[serde(rename = ...)] on a field wins over rename_all
SerdeRename ==
  [dom_id |-> "dom_id", urls_primary_name |-> "urls.primaryName"]

\* the key each field of Config is serialized under
SerdeKey ==
  [f \in {ConfigFields[i] : i \in 1..Len(ConfigFields)} |->
     IF f \in DOMAIN SerdeRename THEN SerdeRename[f] ELSE camelCase(f)]

\* the skipped fields with the fault that oauth has lost its #[serde(skip)]
SerdeSkip_none == {}

\* #[serde(skip)]
SerdeSkip == {"oauth"}

\* Url: name and url; primary is #[serde(skip)]
Serialize_Url(self) ==
  << [k |-> "name", v |-> JString(self.name)],
     [k |-> "url", v |-> JString(self.url)] >>

\* Serialize_SyntaxHighlight with the fault that activated is left out when
\* it holds its default
Serialize_SyntaxHighlight_skips_default(self) ==
  (IF self.activated THEN <<>>
   ELSE << [k |-> "activated", v |-> JBool(self.activated)] >>)
    \o (IF is_none(self.theme) THEN <<>>
        ELSE << [k |-> "theme", v |-> JString(unwrap(self.theme))] >>)

\* SyntaxHighlight: activated, and theme unless it is None
Serialize_SyntaxHighlight(self) ==
  << [k |-> "activated", v |-> JBool(self.activated)] >>
    \o (IF is_none(self.theme) THEN <<>>
        ELSE << [k |-> "theme", v |-> JString(unwrap(self.theme))] >>)

Serialize_BasicAuth(self) ==
  << [k |-> "username", v |-> JString(self.username)],
     [k |-> "password", v |-> JString(self.password)] >>

\* how the value of each field of Config is serialized
Serialize_value(f, x) ==
  CASE f \in { "config_url", "dom_id", "url", "urls_primary_name",
               "default_model_rendering", "doc_expansion",
               "oauth2_redirect_url", "validator_url", "layout" } -> JString(x)
    [] f \in { "default_models_expand_depth", "default_model_expand_depth",
               "max_displayed_tags" } -> JNumber(x)
    [] f = "urls" -> JArray([i \in 1..Len(x) |-> JObject(Serialize_Url(x[i]))])
    [] f = "supported_submit_methods" -> JArray([i \in 1..Len(x) |-> JString(x[i])])
    [] f = "syntax_highlight" -> JObject(Serialize_SyntaxHighlight(x))
    [] f = "basic_auth" -> JObject(Serialize_BasicAuth(x))
    [] OTHER -> JBool(x)

\* Serialize_field with the fault that urls has lost its
\* skip_serializing_if = "Vec::is_empty"
Serialize_field_urls_always(self, f) ==
  IF f \in SerdeSkip THEN <<>>
  ELSE IF f \in {"layout", "urls"}
    THEN << [k |-> SerdeKey[f], v |-> Serialize_value(f, self[f])] >>
  ELSE IF is_none(self[f]) THEN <<>>
       ELSE << [k |-> SerdeKey[f], v |-> Serialize_value(f, unwrap(self[f]))] >>

\* the entry a field of Config contributes: none when it is skipped, when
\* its skip_serializing_if holds (Option::is_none, Vec::is_empty for urls)
Serialize_field(self, f) ==
  IF f \in SerdeSkip THEN <<>>
  ELSE IF f = "layout" THEN << [k |-> SerdeKey[f], v |-> Serialize_value(f, self[f])] >>
  ELSE IF f = "urls"
    THEN IF self[f] = <<>> THEN <<>>
         ELSE << [k |-> SerdeKey[f], v |-> Serialize_value(f, self[f])] >>
  ELSE IF is_none(self[f]) THEN <<>>
       ELSE << [k |-> SerdeKey[f], v |-> Serialize_value(f, unwrap(self[f]))] >>

\* Serialize_from with the fault that the fields are emitted last to first
RECURSIVE Serialize_from_reversed(_, _)
Serialize_from_reversed(self, i) ==
  IF i > Len(ConfigFields) THEN <<>>
  ELSE Serialize_from_reversed(self, i + 1) \o Serialize_field(self, ConfigFields[i])

RECURSIVE Serialize_from(_, _)
Serialize_from(self, i) ==
  IF i > Len(ConfigFields) THEN <<>>
  ELSE Serialize_field(self, ConfigFields[i]) \o Serialize_from(self, i + 1)

\* #[derive(Serialize)] for Config
Serialize_Config(self) == Serialize_from(self, 1)

(***************************************************************************)
(* serde_json::to_string_pretty: PrettyFormatter with a two-space indent   *)
(***************************************************************************)
RECURSIVE indent(_)
indent(n) == IF n = 0 THEN "" ELSE "  " \o indent(n - 1)

escape_char(ch) ==
  CASE ch = "\"" -> "\\\""
    [] ch = "\\" -> "\\\\"
    [] ch = "\n" -> "\\n"
    [] ch = "\t" -> "\\t"
    [] OTHER -> ch

RECURSIVE format_escaped_str_contents(_, _)
format_escaped_str_contents(s, i) ==
  IF i > Len(s) THEN ""
  ELSE escape_char(char_at(s, i)) \o format_escaped_str_contents(s, i + 1)

format_escaped_str(s) == "\"" \o format_escaped_str_contents(s, 1) \o "\""

RECURSIVE pretty(_, _), pretty_items(_, _, _), pretty_entries(_, _, _)
pretty(j, depth) ==
  CASE j.t = "string" -> format_escaped_str(j.v)
    [] j.t = "bool" -> IF j.v THEN "true" ELSE "false"
    [] j.t = "number" -> ToString(j.v)
    [] j.t = "array" ->
         IF Len(j.v) = 0 THEN "[]"
         ELSE "[" \o pretty_items(j.v, 1, depth + 1) \o "\n" \o indent(depth) \o "]"
    [] j.t = "object" ->
         IF Len(j.v) = 0 THEN "{}"
         ELSE "{" \o pretty_entries(j.v, 1, depth + 1) \o "\n" \o indent(depth) \o "}"

pretty_items(items, i, depth) ==
  IF i > Len(items) THEN ""
  ELSE (IF i = 1 THEN "\n" ELSE ",\n") \o indent(depth)
         \o pretty(items[i], depth) \o pretty_items(items, i + 1, depth)

pretty_entries(entries, i, depth) ==
  IF i > Len(entries) THEN ""
  ELSE (IF i = 1 THEN "\n" ELSE ",\n") \o indent(depth)
         \o format_escaped_str(entries[i].k) \o ": "
         \o pretty(entries[i].v, depth) \o pretty_entries(entries, i + 1, depth)

\* Result<String>: no value of Config makes the serializer fail (its map keys
\* are strings and it holds no non-finite number)
to_string_pretty(config) == Ok(pretty(JObject(Serialize_Config(config)), 0))

(***************************************************************************)
(* SwaggerUi                                                               *)
(***************************************************************************)
SwaggerUi_new ==
  [ title |-> "Swagger UI",
    config |-> Config_new,
    file_paths |-> default_map ]

\* include_bytes!: the bytes of a file of the crate, fixed when it is built;
\* the files of res/ are named here, not read
include_bytes(file) == "bytes of " \o file

\* SwaggerUi::static_files: an associated function, it takes no self
static_files ==
  << <<"Css", include_bytes("../res/swagger-ui.css")>>,
     <<"IndexCss", include_bytes("../res/index.css")>>,
     <<"Js", include_bytes("../res/swagger-ui-bundle.js")>>,
     <<"StandalonePresetJs", include_bytes("../res/swagger-ui-standalone-preset.js")>>,
     <<"Favicon16", include_bytes("../res/favicon-16x16.png")>>,
     <<"Favicon32", include_bytes("../res/favicon-32x32.png")>> >>

(***************************************************************************)
(* format_config and SwaggerUi::serve                                      *)
(***************************************************************************)
DEFAULT_CONFIG ==
    "\n" \o
    "window.ui = SwaggerUIBundle({\n" \o
    "  {{config}},\n" \o
    "  presets: [\n" \o
    "    SwaggerUIBundle.presets.apis,\n" \o
    "    SwaggerUIStandalonePreset\n" \o
    "  ],\n" \o
    "  plugins: [\n" \o
    "    SwaggerUIBundle.plugins.DownloadUrl\n" \o
    "  ],\n" \o
    "});"

\* the byte offsets (from 1) at or after i where from occurs in s
matches(s, from, i) ==
  IF from = "" THEN i..(Len(s) + 1)
  ELSE LET m == Len(from) - 1
           c == SubSeq(from, 1, 1)
       IN  {j \in i..(Len(s) - m) : SubSeq(s, j, j) = c /\ SubSeq(s, j, j + m) = from}

\* str::replace: every non-overlapping match of from, left to right
RECURSIVE replace(_, _, _, _)
replace(s, from, to, i) ==
  LET found == matches(s, from, i)
  IN  IF found = {} THEN SubSeq(s, i, Len(s))
      ELSE LET j == CHOOSE m \in found : \A n \in found : m <= n
           IN  SubSeq(s, i, j - 1) \o to \o replace(s, from, to, j + Len(from))

\* &s[begin..end], with the bounds check of the slice
slice(s, begin, end) ==
  IF begin <= end /\ end <= Len(s) THEN Ok(SubSeq(s, begin + 1, end))
  ELSE Panic("byte index out of range")

\* format_config with the fault that the serialized object is spliced whole,
\* braces included
format_config_untrimmed(config, file) ==
  LET result == to_string_pretty(config)
  IN  IF ~is_ok(result) THEN result
      ELSE Ok(replace(file, "{{config}}", result[2], 1))

\* format_config with the fault that one character is cut at each end, the
\* braces without the newlines
format_config_trims_one(config, file) ==
  LET result == to_string_pretty(config)
  IN  IF ~is_ok(result) THEN result
      ELSE LET config_json == result[2]
               body == slice(config_json, 1, Len(config_json) - 1)
           IN  IF ~is_ok(body) THEN body
               ELSE Ok(replace(file, "{{config}}", body[2], 1))

format_config(config, file) ==
  LET result == to_string_pretty(config)
  IN  IF ~is_ok(result) THEN result
      ELSE LET config_json == result[2]
               body == IF Len(config_json) < 2
                         THEN Panic("attempt to subtract with overflow")
                         ELSE slice(config_json, 2, Len(config_json) - 2)
           IN  IF ~is_ok(body) THEN body
               ELSE Ok(replace(file, "{{config}}", body[2], 1))

\* get_expect with the fault that the path is the default one of the file,
\* not the one registered at the time of the call
get_default_path(file_paths, static_file) == Ok(default_path(static_file))

\* HashMap::get(..).expect("all files should be present")
get_expect(file_paths, static_file) ==
  IF static_file \in DOMAIN file_paths THEN Ok(file_paths[static_file])
  ELSE Panic("all files should be present")

\* serve with the fault that the id of the anchor element is taken from the
\* configured dom_id, without its leading '#'
serve_anchor_from_dom_id(self) ==
  LET title == self.title
      css == get_expect(self.file_paths, "Css")
      index_css == get_expect(self.file_paths, "IndexCss")
      js == get_expect(self.file_paths, "Js")
      standalone_preset_js == get_expect(self.file_paths, "StandalonePresetJs")
      formatted == format_config(self.config, DEFAULT_CONFIG)
  IN  IF ~is_ok(css) THEN css
      ELSE IF ~is_ok(index_css) THEN index_css
      ELSE IF ~is_ok(js) THEN js
      ELSE IF ~is_ok(standalone_preset_js) THEN standalone_preset_js
      ELSE IF ~is_ok(formatted) THEN formatted
      ELSE LET css_path == css[2]
               index_css_path == index_css[2]
               js_path == js[2]
               standalone_preset_js_path == standalone_preset_js[2]
               config == formatted[2]
           IN  Ok(
    "<!DOCTYPE html>\n" \o
    "<html lang=\"en\">\n" \o
    "<head>\n" \o
    "    <meta charset=\"UTF-8\">\n" \o
    "    <title>" \o
    title \o
    "</title>\n" \o
    "    <link rel=\"stylesheet\" type=\"text/css\" href=\"" \o
    css_path \o
    "\" />\n" \o
    "    <link rel=\"stylesheet\" type=\"text/css\" href=\"" \o
    index_css_path \o
    "\" />\n" \o
    "</head>\n" \o
    "<body>\n" \o
    "<div id=\"" \o
    SubSeq(unwrap(self.config.dom_id), 2, Len(unwrap(self.config.dom_id))) \o
    "\"></div>\n" \o
    "<script src=\"" \o
    js_path \o
    "\" charset=\"UTF-8\"></script>\n" \o
    "<script src=\"" \o
    standalone_preset_js_path \o
    "\" charset=\"UTF-8\"></script>\n" \o
    "<script>\n" \o
    "    window.onload = () => {\n" \o
    "        " \o
    config \o
    "\n" \o
    "    };\n" \o
    "</script>\n" \o
    "</body>\n" \o
    "</html>\n")

serve(self) ==
  LET title == self.title
      css == get_expect(self.file_paths, "Css")
      index_css == get_expect(self.file_paths, "IndexCss")
      js == get_expect(self.file_paths, "Js")
      standalone_preset_js == get_expect(self.file_paths, "StandalonePresetJs")
      formatted == format_config(self.config, DEFAULT_CONFIG)
  IN  IF ~is_ok(css) THEN css
      ELSE IF ~is_ok(index_css) THEN index_css
      ELSE IF ~is_ok(js) THEN js
      ELSE IF ~is_ok(standalone_preset_js) THEN standalone_preset_js
      ELSE IF ~is_ok(formatted) THEN formatted
      ELSE LET css_path == css[2]
               index_css_path == index_css[2]
               js_path == js[2]
               standalone_preset_js_path == standalone_preset_js[2]
               config == formatted[2]
           IN  Ok(
    "<!DOCTYPE html>\n" \o
    "<html lang=\"en\">\n" \o
    "<head>\n" \o
    "    <meta charset=\"UTF-8\">\n" \o
    "    <title>" \o
    title \o
    "</title>\n" \o
    "    <link rel=\"stylesheet\" type=\"text/css\" href=\"" \o
    css_path \o
    "\" />\n" \o
    "    <link rel=\"stylesheet\" type=\"text/css\" href=\"" \o
    index_css_path \o
    "\" />\n" \o
    "</head>\n" \o
    "<body>\n" \o
    "<div id=\"swagger-ui\"></div>\n" \o
    "<script src=\"" \o
    js_path \o
    "\" charset=\"UTF-8\"></script>\n" \o
    "<script src=\"" \o
    standalone_preset_js_path \o
    "\" charset=\"UTF-8\"></script>\n" \o
    "<script>\n" \o
    "    window.onload = () => {\n" \o
    "        " \o
    config \o
    "\n" \o
    "    };\n" \o
    "</script>\n" \o
    "</body>\n" \o
    "</html>\n")

(***************************************************************************)
(* Inputs                                                                  *)
(***************************************************************************)
StrUrls == {"/a.json", "/b.json"}

StructUrls ==
  { Url_new("A", "/a.json"),
    Url_with_primary("B", "/b.json", TRUE),
    Url_with_primary("", "/c.json", TRUE) }

SeqsUpTo(S, n) == UNION {[1..k -> S] : k \in 0..n}

\* urls(["/a.json", ...]): an iterator of bare strings
StrArgs == {[kind |-> "str", items |-> s] : s \in SeqsUpTo(StrUrls, MaxUrls)}

\* urls([Url::new(..), ...]): an iterator of Url values
UrlArgs == {[kind |-> "url", items |-> s] : s \in SeqsUpTo(StructUrls, MaxUrls)}

Bools == BOOLEAN

ConfigUrls == {"/cfg1.json", "/cfg2.json"}

DomIds == {"#swagger-ui", "#another-el"}

Depths == {-1, 1}

TagCounts == {0, 1}

ModelRenderings == {"model", "[\"example\"*]"}

DocExpansions == {"list", "none"}

RedirectUrls == {"http://auth", "http://auth2"}

ValidatorUrls == {"none", "https://validator"}

SubmitMethods == {<<>>, <<"get">>, <<"get", "post">>}

SyntaxHighlights ==
  { SyntaxHighlight_from(TRUE),
    SyntaxHighlight_from(FALSE),
    SyntaxHighlight_default,
    SyntaxHighlight_theme(SyntaxHighlight_default, "monokai"),
    SyntaxHighlight_activated(SyntaxHighlight_theme(SyntaxHighlight_default, "monokai"), FALSE) }

BasicAuths == {BasicAuth("admin", "password"), BasicAuth("user", "")}

\* oauth::Config values; the type lives in the oauth module and is opaque here
OauthConfigs == {"oauth::Config::new()", "oauth::Config::new().client_id(id)"}

Titles == {"Swagger UI", "My API Documentation"}

Paths == {"/assets/file", ""}


(***************************************************************************)
(* Method calls                                                            *)
(***************************************************************************)
\* one call of method op with argument arg, on the object as it is now
Call(op, arg) ==
  /\ calls < MaxCalls
  /\ calls' = calls + 1
  /\ prev' = ui
  /\ last' = [op |-> op, arg |-> arg]

Config_urls(arg) ==
  /\ Call("urls", arg)
  /\ ui' = [ui EXCEPT !.config = urls(@, arg)]
  /\ ret' = None

\* config_url with the fault that the url of the Config is unset by it
Config_config_url_unsets_url(config_url) ==
  /\ Call("config_url", config_url)
  /\ ui' = [ui EXCEPT !.config.config_url = Some(config_url),
                      !.config.url = None]
  /\ ret' = None

Config_config_url(config_url) ==
  /\ Call("config_url", config_url)
  /\ ui' = [ui EXCEPT !.config.config_url = Some(config_url)]
  /\ ret' = None

\* dom_id with the fault that a value set by an earlier call is kept
Config_dom_id_keeps_first(dom_id) ==
  /\ Call("dom_id", dom_id)
  /\ ui' = [ui EXCEPT !.config.dom_id =
                         IF @ = Config_default.dom_id THEN Some(dom_id) ELSE @]
  /\ ret' = None

Config_dom_id(dom_id) ==
  /\ Call("dom_id", dom_id)
  /\ ui' = [ui EXCEPT !.config.dom_id = Some(dom_id)]
  /\ ret' = None

Config_query_config_enabled(query_config_enabled) ==
  /\ Call("query_config_enabled", query_config_enabled)
  /\ ui' = [ui EXCEPT !.config.query_config_enabled = Some(query_config_enabled)]
  /\ ret' = None

Config_deep_linking(deep_linking) ==
  /\ Call("deep_linking", deep_linking)
  /\ ui' = [ui EXCEPT !.config.deep_linking = Some(deep_linking)]
  /\ ret' = None

Config_display_operation_id(display_operation_id) ==
  /\ Call("display_operation_id", display_operation_id)
  /\ ui' = [ui EXCEPT !.config.display_operation_id = Some(display_operation_id)]
  /\ ret' = None

Config_default_models_expand_depth(default_models_expand_depth) ==
  /\ Call("default_models_expand_depth", default_models_expand_depth)
  /\ ui' = [ui EXCEPT !.config.default_models_expand_depth = Some(default_models_expand_depth)]
  /\ ret' = None

Config_default_model_expand_depth(default_model_expand_depth) ==
  /\ Call("default_model_expand_depth", default_model_expand_depth)
  /\ ui' = [ui EXCEPT !.config.default_model_expand_depth = Some(default_model_expand_depth)]
  /\ ret' = None

Config_default_model_rendering(default_model_rendering) ==
  /\ Call("default_model_rendering", default_model_rendering)
  /\ ui' = [ui EXCEPT !.config.default_model_rendering = Some(default_model_rendering)]
  /\ ret' = None

Config_display_request_duration(display_request_duration) ==
  /\ Call("display_request_duration", display_request_duration)
  /\ ui' = [ui EXCEPT !.config.display_request_duration = Some(display_request_duration)]
  /\ ret' = None

Config_doc_expansion(doc_expansion) ==
  /\ Call("doc_expansion", doc_expansion)
  /\ ui' = [ui EXCEPT !.config.doc_expansion = Some(doc_expansion)]
  /\ ret' = None

Config_filter(filter) ==
  /\ Call("filter", filter)
  /\ ui' = [ui EXCEPT !.config.filter = Some(filter)]
  /\ ret' = None

Config_max_displayed_tags(max_displayed_tags) ==
  /\ Call("max_displayed_tags", max_displayed_tags)
  /\ ui' = [ui EXCEPT !.config.max_displayed_tags = Some(max_displayed_tags)]
  /\ ret' = None

Config_show_extensions(show_extensions) ==
  /\ Call("show_extensions", show_extensions)
  /\ ui' = [ui EXCEPT !.config.show_extensions = Some(show_extensions)]
  /\ ret' = None

Config_show_common_extensions(show_common_extensions) ==
  /\ Call("show_common_extensions", show_common_extensions)
  /\ ui' = [ui EXCEPT !.config.show_common_extensions = Some(show_common_extensions)]
  /\ ret' = None

Config_try_it_out_enabled(try_it_out_enabled) ==
  /\ Call("try_it_out_enabled", try_it_out_enabled)
  /\ ui' = [ui EXCEPT !.config.try_it_out_enabled = Some(try_it_out_enabled)]
  /\ ret' = None

Config_request_snippets_enabled(request_snippets_enabled) ==
  /\ Call("request_snippets_enabled", request_snippets_enabled)
  /\ ui' = [ui EXCEPT !.config.request_snippets_enabled = Some(request_snippets_enabled)]
  /\ ret' = None

Config_oauth2_redirect_url(oauth2_redirect_url) ==
  /\ Call("oauth2_redirect_url", oauth2_redirect_url)
  /\ ui' = [ui EXCEPT !.config.oauth2_redirect_url = Some(oauth2_redirect_url)]
  /\ ret' = None

Config_show_mutated_request(show_mutated_request) ==
  /\ Call("show_mutated_request", show_mutated_request)
  /\ ui' = [ui EXCEPT !.config.show_mutated_request = Some(show_mutated_request)]
  /\ ret' = None

Config_supported_submit_methods(supported_submit_methods) ==
  /\ Call("supported_submit_methods", supported_submit_methods)
  /\ ui' = [ui EXCEPT !.config.supported_submit_methods = Some(supported_submit_methods)]
  /\ ret' = None

Config_validator_url(validator_url) ==
  /\ Call("validator_url", validator_url)
  /\ ui' = [ui EXCEPT !.config.validator_url = Some(validator_url)]
  /\ ret' = None

Config_with_credentials(with_credentials) ==
  /\ Call("with_credentials", with_credentials)
  /\ ui' = [ui EXCEPT !.config.with_credentials = Some(with_credentials)]
  /\ ret' = None

Config_persist_authorization(persist_authorization) ==
  /\ Call("persist_authorization", persist_authorization)
  /\ ui' = [ui EXCEPT !.config.persist_authorization = Some(persist_authorization)]
  /\ ret' = None

Config_with_syntax_highlight(syntax_highlight) ==
  /\ Call("with_syntax_highlight", syntax_highlight)
  /\ ui' = [ui EXCEPT !.config.syntax_highlight = Some(syntax_highlight)]
  /\ ret' = None

Config_basic_auth(basic_auth) ==
  /\ Call("basic_auth", basic_auth)
  /\ ui' = [ui EXCEPT !.config.basic_auth = Some(basic_auth)]
  /\ ret' = None

Config_oauth_config(oauth_config) ==
  /\ Call("oauth_config", oauth_config)
  /\ ui' = [ui EXCEPT !.config.oauth = Some(oauth_config)]
  /\ ret' = None

Config_use_base_layout ==
  /\ Call("use_base_layout", <<>>)
  /\ ui' = [ui EXCEPT !.config.layout = SWAGGER_BASE_LAYOUT]
  /\ ret' = None

SwaggerUi_title(title) ==
  /\ Call("title", title)
  /\ ui' = [ui EXCEPT !.title = title]
  /\ ret' = None

SwaggerUi_override_file_path(static_file, path) ==
  /\ Call("override_file_path", <<static_file, path>>)
  /\ ui' = [ui EXCEPT !.file_paths = insert(@, static_file, path)]
  /\ ret' = None

\* serve with the fault that it takes the object by value and leaves a new
\* map of paths behind
SwaggerUi_serve_resets_paths ==
  /\ Call("serve", <<>>)
  /\ ui' = [ui EXCEPT !.file_paths = default_map]
  /\ ret' = Some(serve(ui))

\* serve takes &self: the object is left as it is
SwaggerUi_serve ==
  /\ Call("serve", <<>>)
  /\ ui' = ui
  /\ ret' = Some(serve(ui))

Init ==
  /\ ui = SwaggerUi_new
  /\ prev = SwaggerUi_new
  /\ last = [op |-> "new", arg |-> <<>>]
  /\ ret = None
  /\ calls = 0

Next ==
  \/ \E arg \in StrArgs : Config_urls(arg)
  \/ \E arg \in UrlArgs : Config_urls(arg)
  \/ \E v \in ConfigUrls : Config_config_url(v)
  \/ \E v \in DomIds : Config_dom_id(v)
  \/ \E v \in Bools : Config_query_config_enabled(v)
  \/ \E v \in Bools : Config_deep_linking(v)
  \/ \E v \in Bools : Config_display_operation_id(v)
  \/ \E v \in Depths : Config_default_models_expand_depth(v)
  \/ \E v \in Depths : Config_default_model_expand_depth(v)
  \/ \E v \in ModelRenderings : Config_default_model_rendering(v)
  \/ \E v \in Bools : Config_display_request_duration(v)
  \/ \E v \in DocExpansions : Config_doc_expansion(v)
  \/ \E v \in Bools : Config_filter(v)
  \/ \E v \in TagCounts : Config_max_displayed_tags(v)
  \/ \E v \in Bools : Config_show_extensions(v)
  \/ \E v \in Bools : Config_show_common_extensions(v)
  \/ \E v \in Bools : Config_try_it_out_enabled(v)
  \/ \E v \in Bools : Config_request_snippets_enabled(v)
  \/ \E v \in RedirectUrls : Config_oauth2_redirect_url(v)
  \/ \E v \in Bools : Config_show_mutated_request(v)
  \/ \E v \in SubmitMethods : Config_supported_submit_methods(v)
  \/ \E v \in ValidatorUrls : Config_validator_url(v)
  \/ \E v \in Bools : Config_with_credentials(v)
  \/ \E v \in Bools : Config_persist_authorization(v)
  \/ \E v \in SyntaxHighlights : Config_with_syntax_highlight(v)
  \/ \E v \in BasicAuths : Config_basic_auth(v)
  \/ \E v \in OauthConfigs : Config_oauth_config(v)
  \/ Config_use_base_layout
  \/ \E v \in Titles : SwaggerUi_title(v)
  \/ \E f \in SwaggerUiStaticFile, p \in Paths : SwaggerUi_override_file_path(f, p)
  \/ SwaggerUi_serve

Spec == Init /\ [][Next]_vars

(***************************************************************************)
(* Properties                                                              *)
(***************************************************************************)
\* the resolved URL state of a Config
UrlState(config) == <<config.url, config.urls_primary_name, config.urls>>

\* the last call was urls(), and the Vec<Url> it collected
LastIsUrls == last.op = "urls"
LastUrls == into_urls(last.arg)

\* the state before the last call is a fresh Config after one urls() call
PrevIsUrlsOnNew ==
  \/ \E a \in StrArgs : prev.config = urls(Config_new, a)
  \/ \E a \in UrlArgs : prev.config = urls(Config_new, a)

\* the keys of the entries of a serialized struct
Keys(entries) == {entries[i].k : i \in 1..Len(entries)}

\* C1: after a sequence of setter calls with at least one urls() call, exactly
\* one of (url set, urls empty) and (url unset, urls non-empty) holds; the
\* formula is the claim's last sentence, which the first implies: url set
\* together with a non-empty urls list is never reachable.
C1_UrlSetWithUrlsNeverReachable ==
  ~(is_some(ui.config.url) /\ ui.config.urls # <<>>)

\* C2: urls(A) followed by urls(B), B of one or more elements, leaves the
\* triple (url, urls, primaryName) that urls(B) alone leaves on a fresh Config.
C2_SecondUrlsOverwrites ==
  (LastIsUrls /\ Len(LastUrls) >= 1 /\ PrevIsUrlsOnNew)
    => UrlState(ui.config) = UrlState(urls(Config_new, last.arg))

\* C3: urls() with an empty sequence is a no-op: url, urls and primaryName
\* after the call equal their values before it, in every reachable state.
C3_EmptyUrlsIsNoOp ==
  (LastIsUrls /\ Len(LastUrls) = 0)
    => UrlState(ui.config) = UrlState(prev.config)

\* C4: single rule: after urls() with exactly one element e, url = Some(e.url)
\* and urls = [] when e.name is empty, url = None and urls = [e] when it is
\* not, whatever the URL state before the call.
C4_SingleRule ==
  (LastIsUrls /\ Len(LastUrls) = 1)
    => LET e == LastUrls[1]
       IN  IF e.name = ""
             THEN ui.config.url = Some(e.url) /\ ui.config.urls = <<>>
             ELSE ui.config.url = None /\ ui.config.urls = <<e>>

\* a single element resolved over a URL state of the other shape
C4_Witness ==
  /\ LastIsUrls /\ Len(LastUrls) = 1
  /\ \/ LastUrls[1].name = "" /\ prev.config.urls # <<>>
     \/ LastUrls[1].name # "" /\ is_some(prev.config.url)

\* C5: single rule, primary name: after urls() with exactly one element e,
\* primaryName = Some(e.name) when e.primary and None otherwise; the name is
\* not checked, so a primary unnamed e gives primaryName = Some("") with
\* url = Some(e.url) and urls = [].
C5_SinglePrimaryName ==
  (LastIsUrls /\ Len(LastUrls) = 1)
    => LET e == LastUrls[1]
       IN  /\ ui.config.urls_primary_name = (IF e.primary THEN Some(e.name) ELSE None)
           /\ (e.primary /\ e.name = "")
                => /\ ui.config.urls_primary_name = Some("")
                   /\ ui.config.url = Some(e.url)
                   /\ ui.config.urls = <<>>

\* a primary unnamed single url has been resolved
C5_Witness ==
  /\ LastIsUrls /\ Len(LastUrls) = 1
  /\ LastUrls[1].primary /\ LastUrls[1].name = ""
  /\ ui.config.urls_primary_name = Some("")

\* C6: multiple rule: after urls() with two or more elements, primaryName is
\* the name of the first element, in input order, whose primary flag is true,
\* and None when no element is primary.
C6_FirstPrimaryWins ==
  (LastIsUrls /\ Len(LastUrls) >= 2)
    => LET us == LastUrls
           primaries == {i \in 1..Len(us) : us[i].primary}
       IN  /\ primaries = {} => ui.config.urls_primary_name = None
           /\ \A i \in primaries :
                (\A j \in primaries : i <= j)
                  => ui.config.urls_primary_name = Some(us[i].name)

\* two primary elements of different names, the first of them not in front
C6_Witness ==
  /\ LastIsUrls /\ Len(LastUrls) >= 2
  /\ \E i, j \in 1..Len(LastUrls) :
       /\ i < j
       /\ LastUrls[i].primary /\ LastUrls[j].primary
       /\ LastUrls[i].name # LastUrls[j].name
       /\ ui.config.urls_primary_name = Some(LastUrls[i].name)

\* C7: multiple rule, list shape: after urls() with n >= 2 elements, urls has
\* n entries in input order, the i-th with the url of the i-th input and with
\* its name, or with its url as name when the input name is empty.
C7_MultipleListShape ==
  (LastIsUrls /\ Len(LastUrls) >= 2)
    => LET us == LastUrls
       IN  /\ Len(ui.config.urls) = Len(us)
           /\ \A i \in 1..Len(us) :
                /\ ui.config.urls[i].url = us[i].url
                /\ ui.config.urls[i].name =
                     (IF us[i].name # "" THEN us[i].name ELSE us[i].url)

\* a named and an unnamed element of different urls resolved together
C7_Witness ==
  /\ LastIsUrls /\ Len(LastUrls) >= 2
  /\ \E i, j \in 1..Len(LastUrls) :
       /\ LastUrls[i].name = "" /\ LastUrls[j].name # ""
       /\ LastUrls[i].url # LastUrls[j].url
       /\ ui.config.urls[i].name = LastUrls[i].url

\* the fields of Config that urls() may assign
UrlFields == {"url", "urls", "urls_primary_name"}

\* C8: urls() changes only url, urls and primaryName: configUrl, dom_id,
\* layout, oauth and every other option are after the call what they were
\* before it.
C8_UrlsFrame ==
  LastIsUrls
    => [ui.config EXCEPT !.url = prev.config.url,
                         !.urls = prev.config.urls,
                         !.urls_primary_name = prev.config.urls_primary_name]
         = prev.config

\* urls() has changed the URL state of a Config with an option off its default
C8_Witness ==
  /\ LastIsUrls
  /\ \E f \in (DOMAIN Config_default) \ UrlFields : prev.config[f] # Config_default[f]
  /\ UrlState(ui.config) # UrlState(prev.config)

\* the fields of Config that are serialized when they hold a value
OptionalFields ==
  {ConfigFields[i] : i \in 1..Len(ConfigFields)} \ ({"urls", "layout"} \cup {"oauth"})

\* serve() has just serialized the Config, and the entries of the object
LastIsServe == last.op = "serve"
Served == Serialize_Config(ui.config)

\* C9: the serialized object has the key of an optional field if and only if
\* the field holds a value, and the key urls if and only if the urls list is
\* non-empty.
C9_FieldPresence ==
  LastIsServe
    => LET keys == Keys(Served)
       IN  /\ \A f \in OptionalFields : (SerdeKey[f] \in keys) <=> is_some(ui.config[f])
           /\ ("urls" \in keys) <=> (ui.config.urls # <<>>)

\* a Config serialized with url set, primaryName unset and urls emptied by
\* the single rule
C9_Witness ==
  /\ LastIsServe
  /\ is_some(ui.config.url) /\ is_none(ui.config.urls_primary_name)
  /\ ui.config.urls = <<>>
  /\ "url" \in Keys(Served)
  /\ "urls" \notin Keys(Served)
  /\ "urls.primaryName" \notin Keys(Served)

\* the values the oauth field can hold
OauthStates == {None} \cup {Some(o) : o \in OauthConfigs}

\* C10: oauth never reaches the output: no oauth key is emitted, and Configs
\* that differ only in oauth have the same serialized JSON and the same page
\* from serve().
C10_OauthNotInOutput ==
  LastIsServe
    => LET served == Served
       IN  /\ "oauth" \notin Keys(served)
           /\ \A o \in OauthStates \ {ui.config.oauth} :
                /\ Serialize_Config([ui.config EXCEPT !.oauth = o]) = served
                /\ ret = Some(serve([ui EXCEPT !.config.oauth = o]))

\* serve() has rendered a Config whose oauth is set
C10_Witness ==
  /\ LastIsServe
  /\ is_some(ui.config.oauth)
  /\ is_ok(unwrap(ret))

\* C11: after any sequence of setter calls on a new Config, the serialized
\* object has both the layout key and the dom_id key: dom_id starts as
\* "#swagger-ui", layout as the standalone layout, and no call unsets either.
C11_LayoutAndDomIdPresent ==
  /\ is_some(ui.config.dom_id)
  /\ calls = 0
       => /\ ui.config.dom_id = Some("#swagger-ui")
          /\ ui.config.layout = "StandaloneLayout"
  /\ LastIsServe => {"layout", "dom_id"} \subseteq Keys(Served)

\* a Config serialized after dom_id() or use_base_layout() replaced a default
C11_Witness ==
  /\ LastIsServe
  /\ \/ ui.config.dom_id # Some("#swagger-ui")
     \/ ui.config.layout # "StandaloneLayout"
  /\ {"layout", "dom_id"} \subseteq Keys(Served)

\* the fields of a Config that Serialize_Config emits, in declaration order
EmittedFields(config) ==
  SelectSeq(ConfigFields, LAMBDA f : Serialize_field(config, f) # <<>>)

\* the camelCase form of each field name, written out
CamelCaseName ==
  [ config_url |-> "configUrl",
    dom_id |-> "domId",
    url |-> "url",
    urls_primary_name |-> "urlsPrimaryName",
    urls |-> "urls",
    query_config_enabled |-> "queryConfigEnabled",
    deep_linking |-> "deepLinking",
    display_operation_id |-> "displayOperationId",
    default_models_expand_depth |-> "defaultModelsExpandDepth",
    default_model_expand_depth |-> "defaultModelExpandDepth",
    default_model_rendering |-> "defaultModelRendering",
    display_request_duration |-> "displayRequestDuration",
    doc_expansion |-> "docExpansion",
    filter |-> "filter",
    max_displayed_tags |-> "maxDisplayedTags",
    show_extensions |-> "showExtensions",
    show_common_extensions |-> "showCommonExtensions",
    try_it_out_enabled |-> "tryItOutEnabled",
    request_snippets_enabled |-> "requestSnippetsEnabled",
    oauth2_redirect_url |-> "oauth2RedirectUrl",
    show_mutated_request |-> "showMutatedRequest",
    supported_submit_methods |-> "supportedSubmitMethods",
    validator_url |-> "validatorUrl",
    with_credentials |-> "withCredentials",
    persist_authorization |-> "persistAuthorization",
    oauth |-> "oauth",
    syntax_highlight |-> "syntaxHighlight",
    layout |-> "layout",
    basic_auth |-> "basicAuth" ]

\* C12: every serialized key of Config is the camelCase form of its field
\* name, except dom_id, emitted under the literal key dom_id, and
\* urls_primary_name, emitted under the literal key urls.primaryName; no
\* other key deviates from camelCase.
C12_KeyNaming ==
  LastIsServe
    => LET fields == EmittedFields(ui.config)
           served == Served
       IN  /\ Len(served) = Len(fields)
           /\ \A i \in 1..Len(fields) :
                served[i].k =
                  CASE fields[i] = "dom_id" -> "dom_id"
                    [] fields[i] = "urls_primary_name" -> "urls.primaryName"
                    [] OTHER -> CamelCaseName[fields[i]]

\* a Config serialized with both renamed keys and a camelCase key of two words
C12_Witness ==
  /\ LastIsServe
  /\ {"dom_id", "urls.primaryName", "deepLinking"} \subseteq Keys(Served)

\* the text of the template before its placeholder and after it
TemplateHead == "\nwindow.ui = SwaggerUIBundle({\n  "
TemplateTail ==
  ",\n  presets: [\n    SwaggerUIBundle.presets.apis,\n"
    \o "    SwaggerUIStandalonePreset\n  ],\n  plugins: [\n"
    \o "    SwaggerUIBundle.plugins.DownloadUrl\n  ],\n});"

\* the page serve() returned
Page == unwrap(ret)[2]

\* C13: format_config returns the template with {{config}} replaced by the
\* two-space pretty-printed JSON of the Config without its first two
\* characters (the opening brace and the newline) and its last two (the
\* newline and the closing brace); the lines between are inserted as they
\* are, in front of the presets and plugins entries of the same object.
C13_TextualSplice ==
  LastIsServe
    => LET result == to_string_pretty(ui.config)
           json == result[2]
           n == Len(json)
           spliced == TemplateHead \o SubSeq(json, 3, n - 2) \o TemplateTail
       IN  /\ is_ok(result)
           /\ SubSeq(json, 1, 2) = "{\n"
           /\ SubSeq(json, n - 1, n) = "\n}"
           /\ SubSeq(json, 3, 5) = "  \""
           /\ format_config(ui.config, DEFAULT_CONFIG) = Ok(spliced)
           /\ is_ok(unwrap(ret))
           /\ \E j \in matches(Page, "window.ui = ", 1) :
                SubSeq(Page, j - 1, j + Len(spliced) - 2) = spliced

\* a Config of several lines, a nested one among them, has been spliced
C13_Witness ==
  /\ LastIsServe
  /\ ui.config.urls # <<>>
  /\ Len(Served) >= 4
  /\ is_ok(unwrap(ret))

\* C14: the asset path map is total at all times: after SwaggerUi::new() and
\* any sequence of override_file_path calls each of the six asset identifiers
\* has a path, so no lookup of serve() takes the panic of its expect.
C14_AssetMapTotal ==
  /\ DOMAIN ui.file_paths = SwaggerUiStaticFile
  /\ \A f \in SwaggerUiStaticFile : is_ok(get_expect(ui.file_paths, f))
  /\ LastIsServe => unwrap(ret)[1] # "Panic"

\* serve() has looked up the paths of a map changed by override_file_path
C14_Witness ==
  /\ LastIsServe
  /\ ui.file_paths # default_map
  /\ is_ok(unwrap(ret))

\* the last call was override_file_path(id, p)
LastIsOverride == last.op = "override_file_path"

\* C15: override_file_path(id, p) sets the path of id to p for any string p,
\* the empty one included, and leaves the paths of the other five assets, the
\* title and the Config as they were; the contents static_files() returns
\* are those of the file named after the identifier, whatever the paths are.
C15_OverrideFrame ==
  LastIsOverride
    => LET id == last.arg[1]
           p == last.arg[2]
       IN  /\ ui.file_paths[id] = p
           /\ \A f \in SwaggerUiStaticFile \ {id} :
                ui.file_paths[f] = prev.file_paths[f]
           /\ ui.title = prev.title
           /\ ui.config = prev.config
           /\ \A i \in 1..Len(all) :
                static_files[i] = <<all[i], include_bytes("../res/" \o file_name(all[i]))>>

\* the empty path has replaced a path that an earlier call had overridden
C15_Witness ==
  /\ LastIsOverride
  /\ last.arg[2] = ""
  /\ prev.file_paths[last.arg[1]] = "/assets/file"
  /\ ui.file_paths[last.arg[1]] = ""

\* "./" and the canonical file name of each asset, written out
CanonicalPath ==
  [ Css |-> "./swagger-ui.css",
    IndexCss |-> "./index.css",
    Js |-> "./swagger-ui-bundle.js",
    StandalonePresetJs |-> "./swagger-ui-standalone-preset.js",
    Favicon16 |-> "./favicon-16x16.png",
    Favicon32 |-> "./favicon-32x32.png" ]

\* C16: in a freshly created SwaggerUi the path of every asset identifier is
\* "./" followed by the asset's canonical file name, and a path changes only
\* through override_file_path.
C16_DefaultPaths ==
  /\ calls = 0
       => /\ DOMAIN ui.file_paths = DOMAIN CanonicalPath
          /\ \A f \in SwaggerUiStaticFile : ui.file_paths[f] = CanonicalPath[f]
  /\ ~LastIsOverride => ui.file_paths = prev.file_paths

\* a call other than override_file_path on an object with a path off its
\* default
C16_Witness ==
  /\ calls > 0
  /\ ~LastIsOverride
  /\ \E f \in SwaggerUiStaticFile : prev.file_paths[f] # CanonicalPath[f]
  /\ ui.file_paths = prev.file_paths

\* the anchor element of the page
Anchor == "<div id=\"swagger-ui\">"

\* C17: the anchor element of the page is fixed: for every Config, one whose
\* dom_id is not "#swagger-ui" included, the page serve() returns has the
\* literal <div id="swagger-ui"> anchor, and the configured dom_id value
\* appears in the page only as the dom_id entry of the spliced configuration.
C17_FixedAnchor ==
  LastIsServe
    => LET entry == "\"dom_id\": \""
           hits == matches(Page, unwrap(ui.config.dom_id), 1)
       IN  /\ is_ok(unwrap(ret))
           /\ Cardinality(matches(Page, Anchor, 1)) = 1
           /\ Cardinality(hits) = 1
           /\ \A j \in hits :
                /\ j > Len(entry)
                /\ SubSeq(Page, j - Len(entry), j - 1) = entry

\* a page rendered for a Config whose dom_id names another element
C17_Witness ==
  /\ LastIsServe
  /\ ui.config.dom_id = Some("#another-el")
  /\ is_ok(unwrap(ret))
  /\ matches(Page, Anchor, 1) # {}

\* the opening of a stylesheet link and of a script tag with a source
LinkOpen == "<link rel=\"stylesheet\" type=\"text/css\" href=\""
ScriptOpen == "<script src=\""

\* the text t stands in s right after the text open that starts at offset j
Follows(s, j, open, t) ==
  SubSeq(s, j + Len(open), j + Len(open) + Len(t) - 1) = t

\* C18: serve() renders the paths registered when it is called, in a fixed
\* order: the link of the primary stylesheet before the link of the secondary
\* one, the script tag of the main bundle before that of the standalone
\* preset; after override_file_path(id, p) for one of these four assets the
\* next serve() has p at the place of that asset.
C18_ServeRendersCurrentPaths ==
  LastIsServe
    => LET links == matches(Page, LinkOpen, 1)
           scripts == matches(Page, ScriptOpen, 1)
       IN  /\ is_ok(unwrap(ret))
           /\ Cardinality(links) = 2
           /\ Cardinality(scripts) = 2
           /\ \E a, b \in links :
                /\ a < b
                /\ Follows(Page, a, LinkOpen, ui.file_paths["Css"] \o "\" />")
                /\ Follows(Page, b, LinkOpen, ui.file_paths["IndexCss"] \o "\" />")
           /\ \E a, b \in scripts :
                /\ a < b
                /\ Follows(Page, a, ScriptOpen, ui.file_paths["Js"] \o "\" charset")
                /\ Follows(Page, b, ScriptOpen,
                           ui.file_paths["StandalonePresetJs"] \o "\" charset")

\* serve() called after override_file_path gave one of the four assets a new
\* path, which the page has at the place of that asset
C18_Witness ==
  /\ LastIsServe
  /\ is_ok(unwrap(ret))
  /\ ui.file_paths["StandalonePresetJs"] = "/assets/file"
  /\ ui.file_paths["Js"] = "./swagger-ui-bundle.js"
  /\ \E b \in matches(Page, ScriptOpen, 1) :
       Follows(Page, b, ScriptOpen, "/assets/file\" charset")

\* C19: the only failure of serve() is a failure of the serialization, which
\* it returns as an error value without any HTML; in every reachable state
\* where the serialization succeeds serve() returns Ok with the whole
\* document, and urls(), override_file_path() and the path lookups neither
\* fail nor panic, the unwrap of the single-URL branch included.
C19_OnlySerializationFails ==
  /\ LastIsServe
       => /\ is_ok(to_string_pretty(ui.config)) => is_ok(unwrap(ret))
          /\ ~is_ok(unwrap(ret)) => unwrap(ret) = to_string_pretty(ui.config)
          /\ is_ok(unwrap(ret))
               => /\ SubSeq(Page, 1, 15) = "<!DOCTYPE html>"
                  /\ SubSeq(Page, Len(Page) - 7, Len(Page)) = "</html>\n"
          /\ \A f \in {"Css", "IndexCss", "Js", "StandalonePresetJs"} :
               is_ok(get_expect(ui.file_paths, f))
  /\ LastIsUrls
       => /\ urls_outcome(prev.config, last.arg) = Ok(ui.config)
          /\ ret = None
  /\ LastIsOverride => ret = None

\* serve() has returned the document for a Config that the single-URL branch
\* of urls() resolved
C19_Witness ==
  /\ LastIsServe
  /\ is_some(ui.config.url)
  /\ is_ok(unwrap(ret))
  /\ \E a \in StrArgs :
       /\ Len(a.items) = 1
       /\ urls_outcome(Config_new, a) = Ok(ui.config)

\* the setters of Config that assign Some(argument) to one field
ScalarSetters ==
  { "config_url", "dom_id", "query_config_enabled", "deep_linking",
    "display_operation_id", "default_models_expand_depth",
    "default_model_expand_depth", "default_model_rendering",
    "display_request_duration", "doc_expansion", "filter",
    "max_displayed_tags", "show_extensions", "show_common_extensions",
    "try_it_out_enabled", "request_snippets_enabled", "oauth2_redirect_url",
    "show_mutated_request", "supported_submit_methods", "validator_url",
    "with_credentials", "persist_authorization", "with_syntax_highlight",
    "basic_auth" }

\* the field a scalar setter assigns: the one of its name
SetterField(op) ==
  IF op = "with_syntax_highlight" THEN "syntax_highlight" ELSE op

\* the values the model passes to each scalar setter
SetterArgs(op) ==
  CASE op = "config_url" -> ConfigUrls
    [] op = "dom_id" -> DomIds
    [] op \in {"default_models_expand_depth", "default_model_expand_depth"} -> Depths
    [] op = "default_model_rendering" -> ModelRenderings
    [] op = "doc_expansion" -> DocExpansions
    [] op = "max_displayed_tags" -> TagCounts
    [] op = "oauth2_redirect_url" -> RedirectUrls
    [] op = "supported_submit_methods" -> SubmitMethods
    [] op = "validator_url" -> ValidatorUrls
    [] op = "with_syntax_highlight" -> SyntaxHighlights
    [] op = "basic_auth" -> BasicAuths
    [] OTHER -> Bools

\* an object with one field of its Config written, as the first conjunct of
\* C20 finds every scalar setter to write it
Written(self, op, arg) == [self EXCEPT !.config[SetterField(op)] = Some(arg)]

\* C20: last write wins, field by field: a scalar setter of Config, title and
\* override_file_path on one asset leave their field equal to the value of
\* the call, whatever an earlier call wrote there, and leave every other
\* field as it was, so that a later call on another field does not undo the
\* write; two setters of different fields called on a new object leave what
\* the same two calls leave in the other order.
C20_LastWriteWins ==
  /\ last.op \in ScalarSetters
       => LET f == SetterField(last.op)
          IN  /\ ui.config[f] = Some(last.arg)
              /\ [ui.config EXCEPT ![f] = prev.config[f]] = prev.config
              /\ ui.title = prev.title
              /\ ui.file_paths = prev.file_paths
  /\ (calls = 2 /\ last.op \in ScalarSetters)
       => \A op1 \in ScalarSetters \ {last.op} : \A v1 \in SetterArgs(op1) :
            prev = Written(SwaggerUi_new, op1, v1)
              => ui = Written(Written(SwaggerUi_new, last.op, last.arg), op1, v1)
  /\ last.op = "title"
       => /\ ui.title = last.arg
          /\ ui.config = prev.config
          /\ ui.file_paths = prev.file_paths
  /\ LastIsOverride
       => /\ ui.file_paths[last.arg[1]] = last.arg[2]
          /\ \A g \in (DOMAIN ui.file_paths) \ {last.arg[1]} :
               ui.file_paths[g] = prev.file_paths[g]
          /\ ui.title = prev.title
          /\ ui.config = prev.config

\* a second write to a field that an earlier call had given another value
C20_Witness ==
  /\ last.op = "dom_id"
  /\ prev.config.dom_id = Some("#another-el")
  /\ ui.config.dom_id = Some("#swagger-ui")

\* C21: when with_syntax_highlight was called the output has a
\* syntaxHighlight object that always has the activated key and has the
\* theme key if and only if a theme was set; the conversion from a bool b
\* gives activated = b and no theme, the default gives activated = true and
\* no theme.
C21_SyntaxHighlightNested ==
  /\ \A b \in BOOLEAN : SyntaxHighlight_from(b) = [activated |-> b, theme |-> <<>>]
  /\ SyntaxHighlight_default = [activated |-> TRUE, theme |-> <<>>]
  /\ LastIsServe
       => LET served == Served
              hits == {i \in 1..Len(served) : served[i].k = "syntaxHighlight"}
          IN  /\ (hits # {}) <=> is_some(ui.config.syntax_highlight)
              /\ \A i \in hits :
                   LET sh == unwrap(ui.config.syntax_highlight)
                       obj == served[i].v
                   IN  /\ obj.t = "object"
                       /\ "activated" \in Keys(obj.v)
                       /\ ("theme" \in Keys(obj.v)) <=> (sh.theme # <<>>)
                       /\ obj.v[1] = [k |-> "activated", v |-> JBool(sh.activated)]
                       /\ sh.theme # <<>>
                            => obj.v[2] = [k |-> "theme", v |-> JString(sh.theme[1])]
                       /\ Keys(obj.v) \subseteq {"activated", "theme"}

\* a Config serialized with a syntax highlight that is switched off and has
\* a theme
C21_Witness ==
  /\ LastIsServe
  /\ ui.config.syntax_highlight = Some([activated |-> FALSE, theme |-> <<"monokai">>])
  /\ "syntaxHighlight" \in Keys(Served)
  /\ is_ok(unwrap(ret))

\* the keys of the output in their fixed order, written out
KeyOrder ==
  << "configUrl", "dom_id", "url", "urls.primaryName", "urls",
     "queryConfigEnabled", "deepLinking", "displayOperationId",
     "defaultModelsExpandDepth", "defaultModelExpandDepth",
     "defaultModelRendering", "displayRequestDuration", "docExpansion",
     "filter", "maxDisplayedTags", "showExtensions", "showCommonExtensions",
     "tryItOutEnabled", "requestSnippetsEnabled", "oauth2RedirectUrl",
     "showMutatedRequest", "supportedSubmitMethods", "validatorUrl",
     "withCredentials", "persistAuthorization", "syntaxHighlight", "layout",
     "basicAuth" >>

\* the place of a key in KeyOrder, 0 for a key that is not in it
KeyRank(k) ==
  LET at == {i \in 1..Len(KeyOrder) : KeyOrder[i] = k}
  IN  IF at = {} THEN 0 ELSE CHOOSE i \in at : TRUE

\* the entries of a serialized Config follow KeyOrder
InKeyOrder(entries) ==
  LET rank == [i \in 1..Len(entries) |-> KeyRank(entries[i].k)]
  IN  /\ \A i \in 1..Len(entries) : rank[i] > 0
      /\ \A i \in 1..(Len(entries) - 1) : rank[i] < rank[i + 1]

\* the start of the line of a key of the outer object in the pretty text
KeyLine(k) == "\n  \"" \o k \o "\": "

\* C22: the order of the serialized keys is fixed and does not depend on the
\* order of the calls: the keys present follow the order configUrl, dom_id,
\* url, urls.primaryName, urls, queryConfigEnabled, deepLinking, ...,
\* persistAuthorization, syntaxHighlight, layout, basicAuth, in the entries
\* and in the text, and the page holds the text of the field values as they
\* are, whatever calls wrote them.
C22_KeyOrderFixed ==
  /\ (LastIsServe \/ calls = 2) => InKeyOrder(Serialize_Config(ui.config))
  /\ LastIsServe
       => LET json == to_string_pretty(ui.config)[2]
              served == Served
              at == [i \in 1..Len(served) |-> matches(json, KeyLine(served[i].k), 1)]
          IN  /\ \A i \in 1..Len(served) : Cardinality(at[i]) = 1
              /\ \A i \in 1..(Len(served) - 1) :
                   \A a \in at[i], b \in at[i + 1] : a < b
              /\ unwrap(ret)[1] = "Ok"
              /\ \E j \in matches(Page, "window.ui = ", 1) :
                   Follows(Page, j, "window.ui = SwaggerUIBundle({\n  ",
                           SubSeq(json, 3, Len(json) - 2))

\* basic_auth() was called before config_url(), and the entries have
\* configUrl in front and basicAuth at the end
C22_Witness ==
  /\ calls = 2
  /\ last.op = "config_url"
  /\ is_some(prev.config.basic_auth)
  /\ LET entries == Serialize_Config(ui.config)
     IN  /\ entries[1].k = "configUrl"
         /\ entries[Len(entries)].k = "basicAuth"

\* no field of the Config other than the URL fields is off its default
OnlyUrlsCalled ==
  [ui.config EXCEPT !.url = Config_default.url,
                    !.urls = Config_default.urls,
                    !.urls_primary_name = Config_default.urls_primary_name]
    = Config_default

\* the keys of the URL fields
UrlKeys == {"url", "urls.primaryName", "urls"}

\* C23: a Config on which only urls() was called serializes, besides the URL
\* keys, exactly dom_id = "#swagger-ui", deepLinking = true and layout =
\* "StandaloneLayout"; deepLinking is emitted as true without a call that
\* sets it, and it stays present after any sequence of setter calls.
C23_DefaultContent ==
  /\ is_some(ui.config.deep_linking)
  /\ LastIsServe => "deepLinking" \in Keys(Served)
  /\ ((LastIsUrls \/ LastIsServe) /\ OnlyUrlsCalled)
       => LET entries == Serialize_Config(ui.config)
              rest == SelectSeq(entries, LAMBDA e : e.k \notin UrlKeys)
          IN  /\ Len(rest) = 3
              /\ rest[1] = [k |-> "dom_id", v |-> JString("#swagger-ui")]
              /\ rest[2] = [k |-> "deepLinking", v |-> JBool(TRUE)]
              /\ rest[3] = [k |-> "layout", v |-> JString("StandaloneLayout")]

\* serve() has serialized a Config on which only urls() was called, with a
\* list of urls
C23_Witness ==
  /\ LastIsServe
  /\ OnlyUrlsCalled
  /\ ui.config.urls # <<>>
  /\ Len(Served) = 4
  /\ is_ok(unwrap(ret))

\* C24: in the multiple rule the primary name is read before the empty names
\* are rewritten: after urls() with two or more elements whose first primary
\* element has an empty name, primaryName = Some("") while the entry of that
\* element in urls has its url as name; a set primaryName then is the name
\* of no entry of urls.
C24_PrimaryNameReadBeforeRename ==
  (LastIsUrls /\ Len(LastUrls) >= 2)
    => LET us == LastUrls
           primaries == {i \in 1..Len(us) : us[i].primary}
       IN  \A i \in primaries :
             ((\A j \in primaries : i <= j) /\ us[i].name = "")
               => /\ ui.config.urls_primary_name = Some("")
                  /\ ui.config.urls[i].name = us[i].url
                  /\ (\A k \in 1..Len(us) : us[k].url # "")
                       => \A k \in 1..Len(ui.config.urls) :
                            Some(ui.config.urls[k].name) # ui.config.urls_primary_name

\* two elements resolved, the first primary one without a name
C24_Witness ==
  /\ LastIsUrls /\ Len(LastUrls) >= 2
  /\ \E i \in 1..Len(LastUrls) :
       /\ LastUrls[i].primary /\ LastUrls[i].name = ""
       /\ \A j \in 1..(i - 1) : ~LastUrls[j].primary
       /\ ui.config.urls[i].name = "/c.json"
  /\ ui.config.urls_primary_name = Some("")

\* C25: the trim in format_config is always well-defined: for every reachable
\* Config that serve() formats, the pretty-printed JSON has at least one
\* entry, layout, so it is at least four characters long, starts with an
\* opening brace and a newline and ends with a newline and a closing brace;
\* cutting two characters at each end stays in range and cuts no part of a
\* key or of a value.
C25_TrimWellDefined ==
  LastIsServe
    => LET entries == Serialize_Config(ui.config)
           result == to_string_pretty(ui.config)
           json == result[2]
           n == Len(json)
           trimmed == format_config(ui.config, "{{config}}")
       IN  /\ Len(entries) >= 1
           /\ "layout" \in Keys(entries)
           /\ is_ok(result)
           /\ n >= 4
           /\ is_ok(slice(json, 2, n - 2))
           /\ is_ok(trimmed)
           /\ json = "{\n" \o trimmed[2] \o "\n}"
           /\ "\n" \o trimmed[2] = pretty_entries(entries, 1, 1)

\* the JSON of a Config with a nested value at its end has been trimmed
C25_Witness ==
  /\ LastIsServe
  /\ is_some(ui.config.basic_auth)
  /\ Served[Len(Served)].k = "basicAuth"
  /\ is_ok(unwrap(ret))

\* C26: no call other than urls() changes the resolved URL state: config_url,
\* dom_id, use_base_layout, oauth_config and every other setter leave url,
\* urls and primaryName as they were, so that the URL state is that of the
\* urls() calls alone.
C26_OnlyUrlsChangesUrlState ==
  /\ (calls > 0 /\ ~LastIsUrls) => UrlState(ui.config) = UrlState(prev.config)
  /\ (LastIsUrls /\ UrlState(prev.config) = UrlState(Config_new))
       => UrlState(ui.config) = UrlState(urls(Config_new, last.arg))

\* config_url() called on a Config whose url an earlier urls() had set
C26_Witness ==
  /\ last.op = "config_url"
  /\ is_some(prev.config.url)
  /\ ui.config.url = prev.config.url
  /\ is_some(ui.config.config_url)

\* the assets whose paths serve() does not look up
Favicons == {"Favicon16", "Favicon32"}

\* C27: serve() reads and does not write, and its result is a function of
\* the title, the four stylesheet and script paths and the Config: the
\* object after the call is the object before it, a second call right after
\* a first returns the same result, and objects that differ only in the path
\* of favicon-16 or favicon-32 give the same HTML.
C27_ServeReadOnly ==
  /\ [](LastIsServe
          => /\ ui = prev
             /\ ret = Some(serve(ui))
             /\ \A f \in Favicons : \A p \in Paths \cup {default_path(f)} :
                  serve([ui EXCEPT !.file_paths[f] = p]) = unwrap(ret))
  /\ [][(LastIsServe /\ last'.op = "serve") => (ret' = ret /\ ui' = ui)]_vars

\* serve() called on an object whose favicon path was overridden
C27_Witness ==
  /\ LastIsServe
  /\ ui.file_paths["Favicon16"] = "/assets/file"
  /\ is_ok(unwrap(ret))
  /\ unwrap(ret) = serve(SwaggerUi_new)

====
